---- MODULE Spec2Model ----
(***************************************************************************)
(* Model of lang/src/language.rs of agora: the Capture Store (Captures),   *)
(* the decomposition of a query into top-level items, and the evaluation   *)
(* of a Statement (Predicate + cost expression) against one item.          *)
(*                                                                         *)
(* Names are sequences of characters so that trim_start_matches('$') is    *)
(* modelled by what it does.  A value carries its concrete type, as a      *)
(* Box<dyn Any> does; booleans are stored as 0/1 under the type "bool".    *)
(***************************************************************************)
EXTENDS Integers, Sequences, FiniteSets, TLC

\* store: the caller's Captures; items: the query's top-level items;
\* last: the last operation, its inputs and what it returned
VARIABLES store, items, last

vars == <<store, items, last>>

\* ---------------------------------------------------------------- bounds
MaxSigils == 1
MaxDirectives == 2
MaxSelections == 2

\* ---------------------------------------------------------------- values
IntVal(n) == [ty |-> "int", v |-> n]
BoolVal(b) == [ty |-> "bool", v |-> IF b THEN 1 ELSE 0]

Types == {"int", "bool"}

\* the values a caller inserts directly
InsertValues == {IntVal(50), BoolVal(TRUE)}

\* ----------------------------------------------------------------- names
BareNames == {<<"n">>, <<"m">>}

RECURSIVE Sigils(_, _)
Sigils(k, name) == IF k = 0 THEN name ELSE <<"$">> \o Sigils(k - 1, name)

\* names with up to k leading sigils
SigilNames(k) == {Sigils(j, b) : j \in 0..k, b \in BareNames}

\* names given to get
LookupNames == SigilNames(MaxSigils + 1)

\* str::trim_start_matches('$'): drops every leading '$'
RECURSIVE trim_start_matches(_)
trim_start_matches(name) ==
    IF name # <<>> /\ Head(name) = "$"
    THEN trim_start_matches(Tail(name))
    ELSE name

\* -------------------------------------------------------------- Captures
\* Captures::new: an empty HashMap
Captures_new == [x \in {} |-> IntVal(0)]

\* Captures::insert: HashMap::insert under the name as given
Captures_insert(caps, name, value) ==
    [x \in (DOMAIN caps) \cup {name} |-> IF x = name THEN value ELSE caps[x]]

\* outcomes of Captures::get
GetNone == [k |-> "None", v |-> 0]
GetOk(n) == [k |-> "SomeOk", v |-> n]
GetErr == [k |-> "SomeErr", v |-> 0]

\* self.values.get(key), then downcast_ref::<T>()
get_downcast(values, key, ty) ==
    IF key \in DOMAIN values
    THEN IF values[key].ty = ty THEN GetOk(values[key].v) ELSE GetErr
    ELSE GetNone

\* Captures::get without the sigil stripping
Captures_get_NoTrim(caps, name, ty) == get_downcast(caps, name, ty)

\* Captures::get::<T>: strip the sigils, look the key up, downcast
Captures_get(caps, name, ty) == get_downcast(caps, trim_start_matches(name), ty)

\* Captures::clear that leaves the map as it is
Captures_clear_Keep(caps) == caps

\* Captures::clear
Captures_clear(caps) == Captures_new

\* ------------------------------------------------------------ query AST
\* a literal argument value, or (pattern side) a variable slot `$name`;
\* graphql_parser keeps the variable's name without the sigil
Lit(val) == [k |-> "lit", val |-> val, var |-> <<>>]
VarSlot(name) == [k |-> "var", val |-> IntVal(0), var |-> name]

Arg(name, value) == [name |-> name, value |-> value]

\* graphql_parser::query::Selection (Field, FragmentSpread) and Directive
Field(name, args, children) ==
    [sel |-> "Field", name |-> name, args |-> args, children |-> children]
FragmentSpread(name) ==
    [sel |-> "FragmentSpread", name |-> name, args |-> <<>>, children |-> <<>>]
DirectiveNode(name, args) ==
    [sel |-> "Directive", name |-> name, args |-> args, children |-> <<>>]

\* enum TopLevelQueryItem
Directive(d) == [kind |-> "Directive", node |-> d]
Selection(s) == [kind |-> "Selection", node |-> s]

\* results of the Result<bool, ()> functions, with the store they leave
\* and whether the structural matcher was entered
MatchOut(res, caps, entered) == [res |-> res, caps |-> caps, entered |-> entered]

\* ---------------------------------------------------- structural matcher
\* a variable slot binds the observed value; a slot whose name is already
\* bound must observe an equal value, and a binding of another type is a
\* failure
match_slot(got, pv, qv, caps) ==
    CASE got.k = "None" ->
            MatchOut("true", Captures_insert(caps, pv.var, qv.val), TRUE)
      [] got.k = "SomeOk" ->
            MatchOut(IF got.v = qv.val.v THEN "true" ELSE "false", caps, TRUE)
      [] got.k = "SomeErr" -> MatchOut("err", caps, TRUE)

\* one argument value of the pattern against the query's value: a literal
\* must be equal, a variable slot captures
match_value(pv, qv, caps) ==
    IF pv.k = "lit"
    THEN MatchOut(IF pv.val = qv.val THEN "true" ELSE "false", caps, TRUE)
    ELSE match_slot(Captures_get(caps, pv.var, qv.val.ty), pv, qv, caps)

\* the query's argument of the given name, or <<>> when it has none
RECURSIVE find_arg(_, _)
find_arg(qargs, name) ==
    IF qargs = <<>> THEN <<>>
    ELSE IF Head(qargs).name = name THEN <<Head(qargs)>>
    ELSE find_arg(Tail(qargs), name)

\* an argument of the pattern against the query's argument of that name
match_argument(parg, found, caps) ==
    IF found = <<>> THEN MatchOut("false", caps, TRUE)
    ELSE match_value(parg.value, found[1].value, caps)

\* every argument the pattern mentions must be matched by the query's
\* argument of that name; arguments the pattern omits are unconstrained
RECURSIVE match_arguments(_, _, _)
RECURSIVE rest_of_arguments(_, _, _)
match_arguments(pargs, qargs, caps) ==
    IF pargs = <<>> THEN MatchOut("true", caps, TRUE)
    ELSE rest_of_arguments(
             match_argument(Head(pargs), find_arg(qargs, Head(pargs).name), caps),
             pargs, qargs)

\* r is the result for the first argument: go on with the others if it
\* matched, else return it
rest_of_arguments(r, pargs, qargs) ==
    IF r.res = "true" THEN match_arguments(Tail(pargs), qargs, r.caps) ELSE r

\* directive name and the arguments the pattern specifies
match_directives(s, o, fragments, capture) ==
    IF s.name # o.name THEN MatchOut("false", capture, TRUE)
    ELSE match_arguments(s.args, o.args, capture)

RECURSIVE match_selections(_, _, _, _)
RECURSIVE any_selection(_, _, _, _)
RECURSIVE all_children(_, _, _, _)
RECURSIVE next_selection(_, _, _, _)
RECURSIVE next_child(_, _, _, _)
RECURSIVE children_of(_, _, _, _)

\* the pattern against each selection of a set in turn: the first match or
\* the first failure ends the search
any_selection(s, os, fragments, capture) ==
    IF os = <<>> THEN MatchOut("false", capture, TRUE)
    ELSE next_selection(match_selections(s, Head(os), fragments, capture),
                        s, os, fragments)

\* r is the result for the first selection: try the others if it did not
\* match, else return it
next_selection(r, s, os, fragments) ==
    IF r.res = "false" THEN any_selection(s, Tail(os), fragments, r.caps) ELSE r

\* every child of the pattern must match some child of the query
all_children(ss, os, fragments, capture) ==
    IF ss = <<>> THEN MatchOut("true", capture, TRUE)
    ELSE next_child(any_selection(Head(ss), os, fragments, capture),
                    ss, os, fragments)

\* r is the result for the pattern's first child: go on with the others if
\* it matched, else return it
next_child(r, ss, os, fragments) ==
    IF r.res = "true" THEN all_children(Tail(ss), os, fragments, r.caps) ELSE r

\* r is the result for the field's arguments: go on with the children if
\* they matched, else return it
children_of(r, s, o, fragments) ==
    IF r.res = "true"
    THEN all_children(s.children, o.children, fragments, r.caps)
    ELSE r

\* a spread on the query side is replaced by its fragment's selection set
\* (a missing fragment is a failure); fields compare name, arguments and
\* children
match_selections(s, o, fragments, capture) ==
    IF o.sel = "FragmentSpread"
    THEN IF o.name \notin DOMAIN fragments
         THEN MatchOut("err", capture, TRUE)
         ELSE any_selection(s, fragments[o.name], fragments, capture)
    ELSE IF s.sel # "Field" \/ s.name # o.name
    THEN MatchOut("false", capture, TRUE)
    ELSE children_of(match_arguments(s.args, o.args, capture), s, o, fragments)

\* ----------------------------------------------------------- expressions
\* Result<T, ()> of an evaluation; a boolean result is 0 or 1
EvalOk(n) == [ok |-> TRUE, v |-> n]
EvalErr == [ok |-> FALSE, v |-> 0]

\* enum LinearExpression
LinConst(n) ==
    [tag |-> "Const", val |-> n, name |-> <<>>, op |-> "", lhs |-> <<>>, rhs |-> <<>>]
LinVariable(name) ==
    [tag |-> "Variable", val |-> 0, name |-> name, op |-> "", lhs |-> <<>>, rhs |-> <<>>]
LinBinary(lhs, op, rhs) ==
    [tag |-> "BinaryExpression", val |-> 0, name |-> <<>>, op |-> op, lhs |-> lhs, rhs |-> rhs]

\* enum Condition
Comparison(lhs, op, rhs) ==
    [tag |-> "Comparison", val |-> 0, name |-> <<>>, op |-> op, lhs |-> lhs, rhs |-> rhs]
Boolean(lhs, op, rhs) ==
    [tag |-> "Boolean", val |-> 0, name |-> <<>>, op |-> op, lhs |-> lhs, rhs |-> rhs]
CondVariable(name) ==
    [tag |-> "Variable", val |-> 0, name |-> name, op |-> "", lhs |-> <<>>, rhs |-> <<>>]
CondConst(b) ==
    [tag |-> "Const", val |-> IF b THEN 1 ELSE 0, name |-> <<>>, op |-> "", lhs |-> <<>>, rhs |-> <<>>]

\* Const<T>::eval: the literal
Const_eval(inner, captures) == EvalOk(inner.val)

\* a lookup that found a value of the asked type, or a failure
found_or_err(got) == IF got.k = "SomeOk" THEN EvalOk(got.v) ELSE EvalErr

\* Variable<T>::eval: the capture of that name at type T; absent or of
\* another type is a failure
Variable_eval(inner, ty, captures) ==
    found_or_err(Captures_get(captures, inner.name, ty))

\* the operators: exact integer arithmetic, comparisons, and/or
apply_linear(op, a, b) ==
    CASE op = "add" -> a + b
      [] op = "sub" -> a - b
      [] op = "mul" -> a * b

apply_comparison(op, a, b) ==
    CASE op = "eq" -> IF a = b THEN 1 ELSE 0
      [] op = "ne" -> IF a # b THEN 1 ELSE 0
      [] op = "lt" -> IF a < b THEN 1 ELSE 0
      [] op = "le" -> IF a <= b THEN 1 ELSE 0
      [] op = "gt" -> IF a > b THEN 1 ELSE 0
      [] op = "ge" -> IF a >= b THEN 1 ELSE 0

apply_boolean(op, a, b) ==
    CASE op = "and" -> IF a = 1 /\ b = 1 THEN 1 ELSE 0
      [] op = "or" -> IF a = 1 \/ b = 1 THEN 1 ELSE 0

\* the operator of a BinaryExpression<Op, _>, of the family it belongs to
apply_operator(family, op, a, b) ==
    CASE family = "linear" -> apply_linear(op, a, b)
      [] family = "comparison" -> apply_comparison(op, a, b)
      [] family = "boolean" -> apply_boolean(op, a, b)

\* BinaryExpression::eval: both operands must evaluate (left, then right),
\* then the operator applies
BinaryExpression_eval(family, op, l, r) ==
    IF ~l.ok THEN EvalErr
    ELSE IF ~r.ok THEN EvalErr
    ELSE EvalOk(apply_operator(family, op, l.v, r.v))

\* impl Expression for LinearExpression
RECURSIVE LinearExpression_eval(_, _)
LinearExpression_eval(self, captures) ==
    CASE self.tag = "Const" -> Const_eval(self, captures)
      [] self.tag = "Variable" -> Variable_eval(self, "int", captures)
      [] self.tag = "BinaryExpression" ->
            BinaryExpression_eval("linear", self.op,
                                  LinearExpression_eval(self.lhs, captures),
                                  LinearExpression_eval(self.rhs, captures))

\* impl Expression for Condition
RECURSIVE Condition_eval(_, _)
Condition_eval(self, captures) ==
    CASE self.tag = "Comparison" ->
            BinaryExpression_eval("comparison", self.op,
                                  LinearExpression_eval(self.lhs, captures),
                                  LinearExpression_eval(self.rhs, captures))
      [] self.tag = "Boolean" ->
            BinaryExpression_eval("boolean", self.op,
                                  Condition_eval(self.lhs, captures),
                                  Condition_eval(self.rhs, captures))
      [] self.tag = "Variable" -> Variable_eval(self, "bool", captures)
      [] self.tag = "Const" -> Const_eval(self, captures)

\* ------------------------------------------------------ TopLevelQueryItem
\* TopLevelQueryItem::match_with_vars that hands any pair to the matcher of
\* the pattern's kind
TopLevelQueryItem_match_with_vars_AnyKind(self, other, fragments, capture) ==
    IF self.kind = "Directive"
    THEN match_directives(self.node, other.node, fragments, capture)
    ELSE match_selections(self.node, other.node, fragments, capture)

\* TopLevelQueryItem::match_with_vars
TopLevelQueryItem_match_with_vars(self, other, fragments, capture) ==
    CASE self.kind = "Directive" /\ other.kind = "Directive" ->
            match_directives(self.node, other.node, fragments, capture)
      [] self.kind = "Selection" /\ other.kind = "Selection" ->
            match_selections(self.node, other.node, fragments, capture)
      [] OTHER -> MatchOut("false", capture, FALSE)

\* `for x in xs.into_iter() { result.push(wrap(x)) }`
RECURSIVE push_each(_, _, _)
push_each(result, xs, kind) ==
    IF xs = <<>> THEN result
    ELSE push_each(Append(result, [kind |-> kind, node |-> Head(xs)]), Tail(xs), kind)

\* graphql_parser::query::Query, the fields from_query reads
Query(directives, selections) ==
    [directives |-> directives, selection_set |-> [items |-> selections]]

\* from_query that pushes the selections before the directives
from_query_SelectionsFirst(query) ==
    push_each(push_each(<<>>, query.selection_set.items, "Selection"),
              query.directives, "Directive")

\* TopLevelQueryItem::from_query
from_query(query) ==
    push_each(push_each(<<>>, query.directives, "Directive"),
              query.selection_set.items, "Selection")

\* TopLevelQueryItem::from_selection_set
from_selection_set(selection_set) ==
    push_each(<<>>, selection_set.items, "Selection")

\* --------------------------------------------------- Predicate, Statement
\* Option<WhenClause>: <<>> is None, <<w>> is Some(w)
NoWhen == <<>>
When(condition) == <<[condition |-> condition]>>

Predicate(graphql, when_clause) == [graphql |-> graphql, when_clause |-> when_clause]
Statement(predicate, cost_expr) == [predicate |-> predicate, cost_expr |-> cost_expr]

\* Result<bool, ()> of Predicate::match_with_vars, the store it leaves and
\* the steps it took, in order
PredOut(res, caps, trace) == [res |-> res, caps |-> caps, trace |-> trace]

StructuralTrace(m) == IF m.entered THEN <<"clear", "structural">> ELSE <<"clear">>

\* `if !(when_clause.condition.eval(captures)?)` that takes a failure of
\* the condition for false
when_result_ErrIsFalse(m, g) ==
    IF g.ok /\ g.v = 1
    THEN PredOut("true", m.caps, StructuralTrace(m) \o <<"guard">>)
    ELSE PredOut("false", m.caps, StructuralTrace(m) \o <<"guard">>)

\* `if !(when_clause.condition.eval(captures)?) { return Ok(false) }`, then
\* Ok(true): m is the structural match, g the value of the condition
when_result(m, g) ==
    IF ~g.ok THEN PredOut("err", m.caps, StructuralTrace(m) \o <<"guard">>)
    ELSE IF g.v = 0 THEN PredOut("false", m.caps, StructuralTrace(m) \o <<"guard">>)
    ELSE PredOut("true", m.caps, StructuralTrace(m) \o <<"guard">>)

\* the when clause evaluated before the structural result is looked at
when_result_GuardFirst(m, g) ==
    IF ~g.ok THEN PredOut("err", m.caps, StructuralTrace(m) \o <<"guard">>)
    ELSE IF g.v = 0 \/ m.res = "false"
    THEN PredOut("false", m.caps, StructuralTrace(m) \o <<"guard">>)
    ELSE PredOut("true", m.caps, StructuralTrace(m) \o <<"guard">>)

\* Predicate::match_with_vars that never consults the when clause
after_structural_NoGuard(self, m) == PredOut(m.res, m.caps, StructuralTrace(m))

\* Predicate::match_with_vars that evaluates the when clause before it
\* looks at the structural result
after_structural_GuardFirst(self, m) ==
    IF m.res = "err" THEN PredOut("err", m.caps, StructuralTrace(m))
    ELSE IF self.when_clause = <<>> THEN PredOut(m.res, m.caps, StructuralTrace(m))
    ELSE when_result_GuardFirst(m, Condition_eval(self.when_clause[1].condition, m.caps))

\* Predicate::match_with_vars from the structural match m on: Err and
\* Ok(false) return at once, then the when clause, if any
after_structural(self, m) ==
    IF m.res = "err" THEN PredOut("err", m.caps, StructuralTrace(m))
    ELSE IF m.res = "false" THEN PredOut("false", m.caps, StructuralTrace(m))
    ELSE IF self.when_clause = <<>> THEN PredOut("true", m.caps, StructuralTrace(m))
    ELSE when_result(m, Condition_eval(self.when_clause[1].condition, m.caps))

\* Predicate::match_with_vars: clear, structural match, when clause
Predicate_match_with_vars(self, item, fragments, caps) ==
    after_structural(self,
        TopLevelQueryItem_match_with_vars(self.graphql, item, fragments,
                                          Captures_clear(caps)))

\* Result<Option<BigInt>, ()> of Statement::try_cost
CostSome(n) == [k |-> "Some", v |-> n]
CostNone == [k |-> "None", v |-> 0]
CostErr == [k |-> "Err", v |-> 0]

\* with the store it leaves, the predicate's result and the steps taken
CostOut(res, p, trace) ==
    [res |-> res, caps |-> p.caps, matched |-> p.res, trace |-> trace]

\* `Ok(Some(self.cost_expr.eval(captures)?))`: p is the predicate's result,
\* c the value of the cost expression
cost_result(p, c) ==
    IF ~c.ok THEN CostOut(CostErr, p, p.trace \o <<"cost">>)
    ELSE CostOut(CostSome(c.v), p, p.trace \o <<"cost">>)

\* the cost expression evaluated whatever the predicate returned
cost_result_Eager(p, c) ==
    IF ~c.ok THEN CostOut(CostErr, p, p.trace \o <<"cost">>)
    ELSE IF p.res = "true" THEN CostOut(CostSome(c.v), p, p.trace \o <<"cost">>)
    ELSE CostOut(CostNone, p, p.trace \o <<"cost">>)

\* Statement::try_cost that evaluates the cost expression before it looks
\* at the predicate's result
after_predicate_Eager(self, p) ==
    IF p.res = "err" THEN CostOut(CostErr, p, p.trace)
    ELSE cost_result_Eager(p, LinearExpression_eval(self.cost_expr, p.caps))

\* Statement::try_cost from the predicate's result p on
after_predicate(self, p) ==
    IF p.res = "err" THEN CostOut(CostErr, p, p.trace)
    ELSE IF p.res = "true"
    THEN cost_result(p, LinearExpression_eval(self.cost_expr, p.caps))
    ELSE CostOut(CostNone, p, p.trace)

\* Statement::try_cost
Statement_try_cost(self, query, fragments, caps) ==
    after_predicate(self,
        Predicate_match_with_vars(self.predicate, query, fragments, caps))

\* ------------------------------------------------------------ the inputs
VarN == <<"n">>
VarM == <<"m">>
SigilN == <<"$", "n">>
SigilM == <<"$", "m">>

\* selections and directives a query is built from
SelUsers150 ==
    Field("users", <<Arg("first", Lit(IntVal(150))), Arg("last", Lit(IntVal(150)))>>,
          <<Field("id", <<>>, <<>>)>>)
SelUsers50 ==
    Field("users", <<Arg("first", Lit(IntVal(50))), Arg("last", Lit(IntVal(150)))>>, <<>>)
SelSpreadF == FragmentSpread("F")

DirUsers150 == DirectiveNode("users", <<Arg("first", Lit(IntVal(150)))>>)
DirCached == DirectiveNode("cached", <<>>)

SelectionCandidates == {SelUsers150, SelUsers50, SelSpreadF}
DirectiveCandidates == {DirUsers150, DirCached}

\* sequences over S of length at most k
SeqsUpTo(S, k) == UNION {[1..j -> S] : j \in 0..k}

Queries ==
    {Query(ds, ss) : ds \in SeqsUpTo(DirectiveCandidates, MaxDirectives),
                     ss \in SeqsUpTo(SelectionCandidates, MaxSelections)}

\* the fragment table handed to a match: without F, or with
\* fragment F { users(first: true) users(first: 150, last: 150) }
NoFragments == [x \in {} |-> <<>>]
FragmentsF ==
    [x \in {"F"} |->
        <<Field("users", <<Arg("first", Lit(BoolVal(TRUE)))>>, <<>>),
          Field("users", <<Arg("first", Lit(IntVal(150))),
                           Arg("last", Lit(IntVal(150)))>>, <<>>)>>]
FragmentTables == {NoFragments, FragmentsF}

\* the patterns of the rules: users(first: $n), users(first: $n, last: $n),
\* users(first: $n, last: $m) { id } and @users(first: $n)
PatUsers == Selection(Field("users", <<Arg("first", VarSlot(VarN))>>, <<>>))
PatUsersTwice ==
    Selection(Field("users", <<Arg("first", VarSlot(VarN)),
                               Arg("last", VarSlot(VarN))>>, <<>>))
PatUsersId ==
    Selection(Field("users", <<Arg("first", VarSlot(VarN)),
                               Arg("last", VarSlot(VarM))>>,
                    <<Field("id", <<>>, <<>>)>>))
PatDirUsers == Directive(DirectiveNode("users", <<Arg("first", VarSlot(VarN))>>))

Patterns == {PatUsers, PatUsersTwice, PatUsersId, PatDirUsers}

\* when $n > 100;  when $m > 100 (only one pattern binds $m);
\* when $n (a boolean);  when $n >= 50 and $n < 150
GuardNOver100 == When(Comparison(LinVariable(SigilN), "gt", LinConst(100)))
GuardMOver100 == When(Comparison(LinVariable(SigilM), "gt", LinConst(100)))
GuardNFlag == When(CondVariable(SigilN))
GuardRange ==
    When(Boolean(Comparison(LinVariable(SigilN), "ge", LinConst(50)), "and",
                 Comparison(LinVariable(SigilN), "lt", LinConst(150))))

Guards == {NoWhen, GuardNOver100, GuardMOver100, GuardNFlag, GuardRange}

\* $n * 2;  $m + 1 (only one pattern binds $m)
CostTwiceN == LinBinary(LinVariable(SigilN), "mul", LinConst(2))
CostMPlus1 == LinBinary(LinVariable(SigilM), "add", LinConst(1))

Costs == {CostTwiceN, CostMPlus1}

Predicates == {Predicate(g, w) : g \in Patterns, w \in Guards}
Statements == {Statement(p, c) : p \in Predicates, c \in Costs}

\* ------------------------------------------------------------ operations
Init ==
    /\ store = Captures_new
    /\ items = <<>>
    /\ last = [op |-> "new"]

\* captures.insert(name, value)
Insert(name, value) ==
    /\ store' = Captures_insert(store, name, value)
    /\ last' = [op |-> "insert", name |-> name, value |-> value, pre |-> store]
    /\ UNCHANGED items

\* captures.get::<T>(name)
Get(name, ty) ==
    /\ last' = [op |-> "get", name |-> name, ty |-> ty,
                out |-> Captures_get(store, name, ty)]
    /\ UNCHANGED <<store, items>>

\* captures.clear()
Clear ==
    /\ store' = Captures_clear(store)
    /\ last' = [op |-> "clear"]
    /\ UNCHANGED items

\* items = TopLevelQueryItem::from_query(query)
FromQuery(query) ==
    /\ items' = from_query(query)
    /\ last' = [op |-> "from_query", query |-> query]
    /\ UNCHANGED store

\* items = TopLevelQueryItem::from_selection_set(query.selection_set)
FromSelectionSet(query) ==
    /\ items' = from_selection_set(query.selection_set)
    /\ last' = [op |-> "from_selection_set", query |-> query]
    /\ UNCHANGED store

\* predicate.match_with_vars(&items[i], fragments, &mut captures)
Match(predicate, i, fragments) ==
    /\ i \in 1..Len(items)
    /\ LET out == Predicate_match_with_vars(predicate, items[i], fragments, store) IN
       /\ store' = out.caps
       /\ last' = [op |-> "match_with_vars", predicate |-> predicate,
                   item |-> items[i], fragments |-> fragments,
                   stale |-> (store # Captures_new), out |-> out]
    /\ UNCHANGED items

\* statement.try_cost(&items[i], fragments, &mut captures)
TryCost(statement, i, fragments) ==
    /\ i \in 1..Len(items)
    /\ LET out == Statement_try_cost(statement, items[i], fragments, store) IN
       /\ store' = out.caps
       /\ last' = [op |-> "try_cost", statement |-> statement,
                   predicate |-> statement.predicate,
                   item |-> items[i], fragments |-> fragments,
                   stale |-> (store # Captures_new), out |-> out]
    /\ UNCHANGED items

\* a query with at most one directive and one root selection, such as
\* `{ users(first: 150) }`
SmallQueries ==
    {q \in Queries : Len(q.directives) <= 1 /\ Len(q.selection_set.items) <= 1}

\* the Capture Store on its own
NextCaptures ==
    \/ \E name \in SigilNames(MaxSigils), value \in InsertValues : Insert(name, value)
    \/ \E name \in LookupNames, ty \in Types : Get(name, ty)
    \/ Clear

SpecCaptures == Init /\ [][NextCaptures]_vars

\* the decomposition of a query into its top-level items
NextItems ==
    \/ \E query \in Queries : FromQuery(query)
    \/ \E query \in Queries : FromSelectionSet(query)

SpecItems == Init /\ [][NextItems]_vars

\* matching and costing the item of a query, on a store that may hold
\* bindings left by an earlier attempt or inserted by the caller
Next ==
    \/ \E name \in BareNames, value \in InsertValues : Insert(name, value)
    \/ Clear
    \/ \E query \in SmallQueries : FromQuery(query)
    \/ \E predicate \in Predicates, i \in 1..Len(items), fragments \in FragmentTables :
          Match(predicate, i, fragments)
    \/ \E statement \in Statements, i \in 1..Len(items), fragments \in FragmentTables :
          TryCost(statement, i, fragments)

Spec == Init /\ [][Next]_vars

\* ---------------------------------------------------------------- claims
IsMatch == last.op = "match_with_vars"
IsTryCost == last.op = "try_cost"
Attempt == IsMatch \/ IsTryCost

\* the structural match of the last attempt, from an empty store
Structural ==
    TopLevelQueryItem_match_with_vars(last.predicate.graphql, last.item,
                                      last.fragments, Captures_new)

HasGuard == last.predicate.when_clause # <<>>

\* the guard of the last attempt on the captures of its structural match
GuardValue == Condition_eval(last.predicate.when_clause[1].condition, Structural.caps)

GuardFalse == HasGuard /\ GuardValue = EvalOk(0)
GuardTrue == HasGuard /\ GuardValue = EvalOk(1)
GuardFails == HasGuard /\ ~GuardValue.ok

\* the cost expression of the last try_cost on the captures of its
\* structural match
CostValue == LinearExpression_eval(last.statement.cost_expr, Structural.caps)

\* the Result<bool, ()> the last attempt got from Predicate::match_with_vars
Matched == IF IsTryCost THEN last.out.matched ELSE last.out.res

InTrace(step) == \E j \in 1..Len(last.out.trace) : last.out.trace[j] = step

\* C1: when the pattern matches structurally and the guard evaluates to
\* false, match_with_vars returns Ok(false) and try_cost returns Ok(None)
\* without evaluating the cost expression, even one that would fail.
C1_GuardFalseNotApplicable ==
    (Attempt /\ Structural.res = "true" /\ GuardFalse) =>
        /\ Matched = "false"
        /\ IsTryCost => (last.out.res = CostNone /\ ~InTrace("cost"))

C1_Witness ==
    /\ IsTryCost /\ Structural.res = "true" /\ GuardFalse
    /\ ~CostValue.ok
    /\ last.out.res = CostNone

\* the rule of the end-to-end example:
\* users(first: $n) when $n > 100 => $n * 2
ExampleStatement == Statement(Predicate(PatUsers, GuardNOver100), CostTwiceN)

\* C2: try_cost returns Ok(Some(c)) exactly when the structural match
\* succeeds, the guard (if any) is true and the cost expression evaluates to
\* c on the captures of that match; it returns Ok(None) exactly when the
\* predicate does not match; the example rule gives Some(300) for
\* first = 150 and None for first = 50.
C2_CostOfMatch ==
    IsTryCost =>
        LET applies == Structural.res = "true" /\ (HasGuard => GuardTrue)
            declines == Structural.res = "false"
                        \/ (Structural.res = "true" /\ GuardFalse)
        IN /\ (last.out.res.k = "Some") <=> (applies /\ CostValue.ok)
           /\ (last.out.res.k = "Some") => last.out.res.v = CostValue.v
           /\ (last.out.res = CostNone) <=> declines
           /\ (last.statement = ExampleStatement /\ last.item = Selection(SelUsers150))
                 => last.out.res = CostSome(300)
           /\ (last.statement = ExampleStatement /\ last.item = Selection(SelUsers50))
                 => last.out.res = CostNone

C2_Witness ==
    /\ IsTryCost
    /\ last.statement = ExampleStatement
    /\ last.item = Selection(SelUsers150)
    /\ last.out.res = CostSome(300)

\* the stores a caller may hand to an attempt
SampleValues == {IntVal(50), IntVal(150), BoolVal(TRUE)}
SampleStores ==
    UNION {[D -> SampleValues] : D \in SUBSET (BareNames \cup {SigilN})}

\* C3: the result of match_with_vars and of try_cost, and the store they
\* leave, are the same from every initial store; the store after an attempt
\* holds only what that attempt wrote.
C3_StoreIndependence ==
    Attempt =>
        /\ store = last.out.caps
        /\ \A c \in SampleStores :
              IF IsTryCost
              THEN LET o == Statement_try_cost(last.statement, last.item,
                                               last.fragments, c)
                   IN o.res = last.out.res /\ o.caps = store
              ELSE LET o == Predicate_match_with_vars(last.predicate, last.item,
                                                      last.fragments, c)
                   IN o.res = last.out.res /\ o.caps = store

C3_Witness ==
    /\ IsTryCost /\ last.stale
    /\ last.out.res.k = "Some"
    /\ store # Captures_new

\* C4: when the pattern and the item are of different kinds, the match is
\* Ok(false) (try_cost: Ok(None)), the structural matcher is not entered
\* and the store holds no binding.
C4_KindMismatch ==
    (Attempt /\ last.predicate.graphql.kind # last.item.kind) =>
        /\ Matched = "false"
        /\ IsTryCost => last.out.res = CostNone
        /\ ~InTrace("structural")
        /\ store = Captures_new

C4_Witness ==
    /\ IsMatch /\ last.stale
    /\ last.predicate.graphql.kind = "Directive" /\ last.item.kind = "Selection"
    /\ last.predicate.graphql.node.name = last.item.node.name
    /\ last.out.res = "false"

\* C5: a failure of the structural matcher, of the guard or of the cost
\* expression is returned as Err, never as Ok(false), Ok(None) or Ok(Some).
C5_ErrorsPropagate ==
    Attempt =>
        /\ (Structural.res = "err" \/ (Structural.res = "true" /\ GuardFails))
              => /\ Matched = "err"
                 /\ IsTryCost => last.out.res = CostErr
        /\ (IsTryCost /\ Structural.res = "true" /\ (HasGuard => GuardTrue)
               /\ ~CostValue.ok)
              => last.out.res = CostErr

C5_Witness ==
    /\ IsTryCost /\ Structural.res = "true" /\ GuardFails
    /\ last.out.res = CostErr

\* C10: the guard is evaluated only after a structural match, on the
\* captures of that match: a structural non-match returns Ok(false) without
\* evaluating the guard, even one that would fail, and a predicate with no
\* guard returns the structural matcher's result.
C10_GuardAfterStructure ==
    Attempt =>
        /\ InTrace("guard") => (Structural.res = "true" /\ HasGuard)
        /\ (Structural.res = "true" /\ GuardTrue) => Matched = "true"
        /\ (Structural.res = "true" /\ GuardFalse) => Matched = "false"
        /\ Structural.res = "false" => (Matched = "false" /\ ~InTrace("guard"))
        /\ ~HasGuard => (Matched = Structural.res /\ store = Structural.caps)

C10_Witness ==
    /\ IsMatch /\ Structural.res = "false"
    /\ last.predicate.graphql.kind = last.item.kind
    /\ GuardFails
    /\ last.out.res = "false"

\* the bindings of the store that a name refers to, `$limit` and `limit`
\* being the same name
BindingsUnder(name) ==
    {k \in DOMAIN store : trim_start_matches(k) = trim_start_matches(name)}

\* C6: after any inserts and clears, get::<T>(name) is None exactly when no
\* binding exists under the name, Some(Ok(v)) only for a binding of type T
\* holding v, and Some(Err) only for a binding of another type; a binding
\* that exists is never reported as absent.
C6_GetThreeOutcomes ==
    last.op = "get" =>
        /\ (last.out = GetNone) <=> (BindingsUnder(last.name) = {})
        /\ (last.out.k = "SomeOk") =>
              \E k \in BindingsUnder(last.name) :
                  store[k].ty = last.ty /\ store[k].v = last.out.v
        /\ (last.out.k = "SomeErr") =>
              \E k \in BindingsUnder(last.name) : store[k].ty # last.ty

\* C7: right after insert(name, v), get::<T>(name) with the same name and
\* T the type of v returns v, and the bindings under other names are as
\* they were.
C7_InsertThenGet ==
    last.op = "insert" =>
        /\ Captures_get(store, last.name, last.value.ty) = GetOk(last.value.v)
        /\ DOMAIN store = (DOMAIN last.pre) \cup {last.name}
        /\ \A x \in (DOMAIN last.pre) \ {last.name} : store[x] = last.pre[x]

\* C8: in every state of the store, get::<T>("$" + n) and get::<T>(n)
\* return the same outcome, for every name n and type T.
C8_SigilStripped ==
    \A n \in LookupNames, ty \in Types :
        Captures_get(store, <<"$">> \o n, ty) = Captures_get(store, n, ty)

C8_Witness ==
    /\ last.op = "get"
    /\ Head(last.name) = "$"
    /\ Tail(last.name) \in DOMAIN store
    /\ last.out = GetOk(store[Tail(last.name)].v)

\* C9: from_query returns the query's directives in order, then the
\* selections of its root selection set in order, and nothing else.
C9_DirectivesThenSelections ==
    last.op = "from_query" =>
        LET ds == last.query.directives
            ss == last.query.selection_set.items
        IN /\ Len(items) = Len(ds) + Len(ss)
           /\ \A i \in 1..Len(ds) : items[i] = Directive(ds[i])
           /\ \A j \in 1..Len(ss) : items[Len(ds) + j] = Selection(ss[j])

C9_Witness ==
    /\ last.op = "from_query"
    /\ Len(last.query.directives) = 2
    /\ Len(last.query.selection_set.items) = 2
    /\ last.query.directives[1] # last.query.directives[2]
    /\ last.query.selection_set.items[1] # last.query.selection_set.items[2]
    /\ items[2] = Directive(last.query.directives[2])
    /\ items[3] = Selection(last.query.selection_set.items[1])

====
